---- MODULE Spec2Model ----
(***************************************************************************)
(* A model of super-sniffle's query assembler (QueryBuilder, api.py), its  *)
(* clause renderers, and the lazy identifier allocator of NodePattern      *)
(* (ast/patterns/node_pattern.py).                                         *)
(*                                                                         *)
(* Text is modelled as a sequence of string tokens (concatenation is \o);  *)
(* a rendered query is a sequence of lines, each line a record holding the *)
(* number of leading spaces and the tokens of the line.                    *)
(***************************************************************************)
EXTENDS Integers, Sequences, FiniteSets, TLC

(***************************************************************************)
(* Bounds of the model.                                                    *)
(***************************************************************************)
\* longest clause list a builder method is applied up to
MaxClauses == 3
\* allocations explored by the allocator specifications
MaxCounter == 4
\* references made to one NodePattern instance
MaxRefs == 2
\* allocations explored when walking the name pool
PoolCap == 70

(***************************************************************************)
(* Input domains of the builder calls.                                     *)
(***************************************************************************)
NodeIds == {"n1", "n2"}
Counts == {1, 2}
Databases == {"movies", "people"}
None == <<"None">>

VARIABLES
    recv_before,   \* clause list of the receiver of the last builder call, before the call
    recv_after,    \* clause list of that same receiver object after the call
    ret,           \* clause list of the builder the last call returned
    call,          \* the last builder call: method name and argument
    out,           \* result of the last to_cypher / str / prop call
    _node_counter, \* the process-wide allocator counter
    nodes,         \* the NodePattern instances: explicit variable, _lazy_variable
    issued,        \* names returned by _get_next_variable_name since the counter was last zero
    refs,          \* how many times each NodePattern instance was referenced (str, prop)
    threads,       \* the _ensure_variable calls in progress, one per thread
    pattern,       \* the last pattern operation: its operands, and what it returned or raised
    compound       \* the last union call: receiver before and after, and the CompoundQuery returned

vars == <<recv_before, recv_after, ret, call, out, _node_counter, nodes, issued, refs,
          threads, pattern, compound>>
qbVars == <<recv_before, recv_after, ret, call>>
nodeVars == <<_node_counter, nodes, issued, refs>>
auxVars == <<threads, pattern, compound>>

(***************************************************************************)
(* Text helpers.                                                           *)
(***************************************************************************)
\* str(int) for the small integers the model uses
Digits == <<"1", "2", "3", "4", "5", "6", "7", "8", "9">>
IntToStr(i) == IF i = 0 THEN "0" ELSE Digits[i]

RECURSIVE Join(_, _)
\* sep.join(parts) for parts a sequence of texts
Join(parts, sep) ==
    IF parts = <<>> THEN <<>>
    ELSE IF Len(parts) = 1 THEN parts[1]
    ELSE parts[1] \o sep \o Join(Tail(parts), sep)

RECURSIVE Concat(_)
\* "\n".join(blocks) for blocks a sequence of line sequences
Concat(blocks) ==
    IF blocks = <<>> THEN <<>> ELSE blocks[1] \o Concat(Tail(blocks))

Line(indent, text) == [indent |-> indent, text |-> text]

(***************************************************************************)
(* Lazy identifier allocator (ast/patterns/node_pattern.py).               *)
(***************************************************************************)
_JAZZ_MUSICIANS == <<
    "bolden", "morton", "oliver", "armstrong", "bechet", "ory", "dodds", "noone",
    "tio", "perez", "picou", "bunk", "celestin", "piron", "robichaux", "trepagnier",
    "beiderbecke", "trumbauer", "mares", "rappolo", "brunies", "pollack", "teschemacher", "freeman",
    "tough", "sullivan", "spanier", "condon", "mckenzie", "lang", "johnson", "roberts",
    "blake", "waller", "hines", "wilson", "henderson", "redman", "carter", "hawkins",
    "smith", "miley", "nanton", "bigard", "hardwick", "handy", "williams", "cox",
    "bradford", "davenport", "lewis", "ammons", "yancey", "whiteman", "goldkette", "nichols",
    "dorsey", "goodman", "miller", "krupa", "berigan", "mole", "venuti", "signorelli",
    "rollini", "moten", "kirk", "williams", "page", "rushing", "basie", "luncford",
    "calloway", "rainey", "hunter", "spivey", "wallace", "hill", "cox", "henderson",
    "austin", "reinhardt", "grappelli", "coleman", "ellington", "mills", "miley", "anderson",
    "keppard", "ladnier", "brown", "stewart", "green", "singleton", "hall", "foster",
    "jackson", "russell", "dodson", "shoffner", "duhe", "barbarin", "marrero", "lofton",
    "brooks", "thomas", "cooper", "scott", "clark", "richardson", "parker", "bryant",
    "washington", "holmes", "bailey", "mitchell", "gibson", "reynolds", "watson", "hughes",
    "sanders", "coleman", "murphy", "harrison", "garrett" >>

\* _get_next_variable_name(): the name returned and the counter it leaves
_get_next_variable_name(counter) ==
    LET musician == IF counter < Len(_JAZZ_MUSICIANS)
                    THEN <<_JAZZ_MUSICIANS[counter + 1]>>
                    ELSE <<"jazzcat", IntToStr(counter - Len(_JAZZ_MUSICIANS) + 1)>>
    IN  [name |-> <<"_node_">> \o musician, counter |-> counter + 1]

\* NodePattern(variable=..., labels=...), labels being a tuple of str: _lazy_variable has
\* init=False, default None; properties, condition and the degree fields keep their
\* defaults.  An optional field is <<>> when it is None and <<v>> when it is v; the
\* condition is None or the text of an expression.
NodePattern(variable, labels) ==
    [variable |-> variable, labels |-> labels, labels_type |-> "tuple",
     properties |-> <<>>, condition |-> None, max_degree |-> <<>>,
     degree_direction |-> <<>>, degree_rel_type |-> <<>>, _lazy_variable |-> None]

RECURSIVE LabelAnd_str(_)
\* str(L(l1) & L(l2) & ...): LabelAtom.__str__, LabelAnd.__str__
LabelAnd_str(atoms) ==
    IF Len(atoms) = 1 THEN <<atoms[1]>>
    ELSE <<"(">> \o LabelAnd_str(SubSeq(atoms, 1, Len(atoms) - 1))
         \o <<" & ", atoms[Len(atoms)], ")">>

\* NodePattern(...) with every field given: __post_init__ and _validate_degree_params.
\* labels is a tuple of items, each a str or a LabelAtom.
NodePattern_init(variable, labels, properties, max_degree, degree_direction, degree_rel_type) ==
    LET all_str == \A i \in 1..Len(labels) : labels[i].type = "str"
        names == [i \in 1..Len(labels) |-> labels[i].value]
        made == [NodePattern(variable, IF all_str THEN names ELSE LabelAnd_str(names))
                     EXCEPT !.labels_type = IF all_str THEN "tuple" ELSE "BaseLabelExpr",
                            !.properties = properties,
                            !.max_degree = max_degree,
                            !.degree_direction = degree_direction,
                            !.degree_rel_type = degree_rel_type]
    IN  IF max_degree # <<>> \/ degree_direction # <<>> \/ degree_rel_type # <<>>
        THEN IF variable = None THEN [error |-> "ValueError", kind |-> "None", value |-> None]
             ELSE IF max_degree = <<>>
             THEN [error |-> "ValueError", kind |-> "None", value |-> None]
             ELSE [error |-> "None", kind |-> "NodePattern", value |-> made]
        ELSE [error |-> "None", kind |-> "NodePattern", value |-> made]

\* format_value(value) of an int or a str without double quotes
format_value(v) ==
    IF v.type = "str" THEN <<"\"", v.value, "\"">> ELSE <<IntToStr(v.value)>>

\* _ensure_variable without the check of _lazy_variable
_ensure_variable_regenerating(node, counter) ==
    IF node.variable # None
    THEN [name |-> node.variable, node |-> node, counter |-> counter]
    ELSE LET generated == _get_next_variable_name(counter)
         IN  [name |-> generated.name,
              node |-> [node EXCEPT !._lazy_variable = generated.name],
              counter |-> generated.counter]

\* _ensure_variable without the check of variable
_ensure_variable_ignoring_variable(node, counter) ==
    IF node._lazy_variable # None
    THEN [name |-> node._lazy_variable, node |-> node, counter |-> counter]
    ELSE LET generated == _get_next_variable_name(counter)
         IN  [name |-> generated.name,
              node |-> [node EXCEPT !._lazy_variable = generated.name],
              counter |-> generated.counter]

\* NodePattern._ensure_variable(): the name returned, the instance and the counter after
_ensure_variable(node, counter) ==
    IF node.variable # None
    THEN [name |-> node.variable, node |-> node, counter |-> counter]
    ELSE IF node._lazy_variable # None
    THEN [name |-> node._lazy_variable, node |-> node, counter |-> counter]
    ELSE LET generated == _get_next_variable_name(counter)
         IN  [name |-> generated.name,
              node |-> [node EXCEPT !._lazy_variable = generated.name],
              counter |-> generated.counter]

\* Property(variable, name).to_cypher()
Property_to_cypher(variable, name) == variable \o <<".", name>>

\* NodePattern.to_cypher().  The grave accent that wraps a composite label expression
\* is written as the token "GRAVE".
NodePattern_to_cypher(node) ==
    LET effective_variable ==
            IF node.variable # None THEN node.variable
            ELSE IF node._lazy_variable # None THEN node._lazy_variable
            ELSE None
        label_parts ==
            (IF effective_variable # None THEN <<effective_variable>> ELSE <<>>)
            \o (IF node.labels = <<>> THEN <<>>
                ELSE IF node.labels_type = "BaseLabelExpr"
                THEN IF \E i \in 1..Len(node.labels) : node.labels[i] \in {" & ", " | ", "!"}
                     THEN <<(<<"GRAVE">> \o node.labels \o <<"GRAVE">>)>>
                     ELSE <<node.labels>>
                ELSE <<Join([i \in 1..Len(node.labels) |-> <<node.labels[i]>>], <<":">>)>>)
        label_str ==
            IF label_parts # <<>>
            THEN IF effective_variable # None
                 THEN Join(label_parts, <<":">>)
                 ELSE <<":">> \o Join(label_parts, <<":">>)
            ELSE <<>>
        properties_str ==
            IF node.properties = <<>> THEN <<>>
            ELSE <<" {">>
                 \o Join([i \in 1..Len(node.properties) |->
                              <<node.properties[i].key, ": ">> \o format_value(node.properties[i])],
                          <<", ">>)
                 \o <<"}">>
        func_name ==
            IF node.degree_direction = <<"in">> THEN "apoc.node.degree.in"
            ELSE IF node.degree_direction = <<"out">> THEN "apoc.node.degree.out"
            ELSE "apoc.node.degree"
        args ==
            <<effective_variable>>
            \o (IF node.degree_rel_type # <<>>
                THEN <<(<<"'", node.degree_rel_type[1], "'">>)>> ELSE <<>>)
        conditions ==
            (IF node.condition # None THEN <<node.condition>> ELSE <<>>)
            \o (IF node.max_degree = <<>> THEN <<>>
                ELSE <<(<<func_name, "(">> \o Join(args, <<", ">>)
                        \o <<") < ", IntToStr(node.max_degree[1])>>)>>)
        condition_str ==
            IF conditions = <<>> THEN <<>>
            ELSE <<" WHERE ">> \o Join(conditions, <<" AND ">>)
    IN  <<"(">> \o label_str \o properties_str \o condition_str \o <<")">>

\* NodePattern.where(condition): dataclasses.replace builds a new instance from the
\* fields that __init__ takes; _lazy_variable is not one of them
NodePattern_where(node, condition) ==
    [variable |-> node.variable, labels |-> node.labels, labels_type |-> node.labels_type,
     properties |-> node.properties, condition |-> condition,
     max_degree |-> node.max_degree, degree_direction |-> node.degree_direction,
     degree_rel_type |-> node.degree_rel_type, _lazy_variable |-> None]

\* the identifier an instance shows: the explicit one, else the lazy one, else None
EffectiveVariable(node) ==
    IF node.variable # None THEN node.variable ELSE node._lazy_variable

\* an element of a path: a NodePattern instance or a RelationshipPattern
NodeElement(n) == [type |-> "NodePattern", value |-> n]
RelationshipPattern(direction) == [type |-> "RelationshipPattern", value |-> direction]

\* a PathPattern given as an element of another: its value is the path
PathElement(p) == [type |-> "PathPattern", value |-> p]

RECURSIVE Flatten(_)
\* PathPattern.__post_init__, first loop: a PathPattern element gives way to its elements
Flatten(elements) ==
    IF elements = <<>> THEN <<>>
    ELSE (IF elements[1].type = "PathPattern" THEN elements[1].value.elements
          ELSE <<elements[1]>>)
         \o Flatten(Tail(elements))

\* a __post_init__ that inserts nothing
InsertImplicit_nothing(elements) == elements

RECURSIVE InsertImplicit(_)
\* PathPattern.__post_init__, second loop: an undirected relationship between consecutive nodes
InsertImplicit(elements) ==
    IF Len(elements) <= 1 THEN elements
    ELSE <<elements[1]>>
         \o (IF elements[1].type = "NodePattern" /\ elements[2].type = "NodePattern"
             THEN <<RelationshipPattern("-")>>
             ELSE <<>>)
         \o InsertImplicit(Tail(elements))

\* PathPattern(elements, variable=variable, condition=condition)
PathPattern_init(elements, variable, condition) ==
    [elements |-> InsertImplicit(Flatten(elements)), variable |-> variable,
     condition |-> condition]

\* PathPattern(elements)
PathPattern(elements) == PathPattern_init(elements, None, None)

\* RelationshipPattern.to_cypher() of a relationship without variable, type or properties
RelationshipPattern_to_cypher(rel) ==
    IF rel.value = "<" THEN <<"<--">>
    ELSE IF rel.value = ">" THEN <<"-->">>
    ELSE <<"--">>

\* PathPattern.to_cypher() of a path without condition
PathPattern_to_cypher(path, nodeState) ==
    LET part(elem) ==
            IF elem.type = "NodePattern"
            THEN IF /\ nodeState[elem.value].variable = None
                    /\ nodeState[elem.value].labels = <<>>
                    /\ nodeState[elem.value].properties = <<>>
                    /\ nodeState[elem.value].condition = None
                 THEN <<"()">>
                 ELSE NodePattern_to_cypher(nodeState[elem.value])
            ELSE RelationshipPattern_to_cypher(elem)
        path_str == Join([i \in 1..Len(path.elements) |-> part(path.elements[i])], <<>>)
    IN  IF path.variable # None THEN path.variable \o <<" = ">> \o path_str ELSE path_str

(***************************************************************************)
(* Clauses (clauses/*.py).  A clause is a record: its class name and its   *)
(* fields.  Each to_cypher returns the lines of the clause; indent is the  *)
(* number of spaces of the indentation prefix.                             *)
(***************************************************************************)
MatchClause(patterns) == [kind |-> "MatchClause", params |-> patterns]
OptionalMatchClause(patterns) == [kind |-> "OptionalMatchClause", params |-> patterns]
WhereClause(condition) == [kind |-> "WhereClause", params |-> condition]
WithClause(projections, distinct) ==
    [kind |-> "WithClause", params |-> [projections |-> projections, distinct |-> distinct]]
ReturnClause(projections, distinct) ==
    [kind |-> "ReturnClause", params |-> [projections |-> projections, distinct |-> distinct]]
GroupByClause(expressions) == [kind |-> "GroupByClause", params |-> expressions]
OrderByClause(expressions) == [kind |-> "OrderByClause", params |-> expressions]
SkipClause(count) == [kind |-> "SkipClause", params |-> count]
LimitClause(count) == [kind |-> "LimitClause", params |-> count]
UseClause(database) == [kind |-> "UseClause", params |-> database]
UnwindClause(expression, variable) ==
    [kind |-> "UnwindClause", params |-> [expression |-> expression, variable |-> variable]]
CallProcedureClause(procedure_name, arguments, optional) ==
    [kind |-> "CallProcedureClause",
     params |-> [procedure_name |-> procedure_name, arguments |-> arguments,
                 optional |-> optional]]
YieldClause(columns, wildcard) ==
    [kind |-> "YieldClause", params |-> [columns |-> columns, wildcard |-> wildcard]]
CallSubqueryClause(subquery, variables, optional) ==
    [kind |-> "CallSubqueryClause",
     params |-> [subquery |-> subquery, variables |-> variables, optional |-> optional]]
NextClause == [kind |-> "NextClause", params |-> <<>>]

\* a projection is a str or an object such as a NodePattern
StrItem(s) == [type |-> "str", value |-> s]
NodeItem(n) == [type |-> "NodePattern", value |-> n]

\* ComparisonExpression(Property(variable, name), operator, right).to_cypher()
ComparisonExpression_to_cypher(e) ==
    Property_to_cypher(e.variable, e.name) \o <<" ", e.operator, " ", e.right>>

\* OrderByExpression.to_cypher()
OrderByExpression_to_cypher(e) ==
    <<e.field>> \o (IF e.descending THEN <<" DESC">> ELSE <<>>)

\* MatchClause.to_cypher(): patterns rendered from the instances as they are now
\* The to_cypher of MatchClause, OptionalMatchClause, WhereClause, WithClause,
\* ReturnClause, GroupByClause, OrderByClause, SkipClause and LimitClause puts no
\* prefix before its text: indent is handed over (api.py:302) and not used.
MatchClause_to_cypher(c, indent, nodeState) ==
    <<Line(0, <<"MATCH ">>
        \o Join([i \in 1..Len(c.params) |-> NodePattern_to_cypher(nodeState[c.params[i]])],
                <<", ">>))>>

OptionalMatchClause_to_cypher(c, indent, nodeState) ==
    <<Line(0, <<"OPTIONAL MATCH ">>
        \o Join([i \in 1..Len(c.params) |-> NodePattern_to_cypher(nodeState[c.params[i]])],
                <<", ">>))>>

WhereClause_to_cypher(c, indent) ==
    <<Line(0, <<"WHERE ">> \o ComparisonExpression_to_cypher(c.params))>>

\* ", ".join(self.projections) raises TypeError on an item that is not a str
JoinRaises(items) == \E i \in 1..Len(items) : items[i].type # "str"

WithClause_to_cypher(c, indent) ==
    <<Line(0, <<"WITH ">>
        \o (IF c.params.distinct THEN <<"DISTINCT ">> ELSE <<>>)
        \o Join([i \in 1..Len(c.params.projections) |-> <<c.params.projections[i].value>>],
                <<", ">>))>>

ReturnClause_to_cypher(c, indent) ==
    <<Line(0, <<"RETURN ">>
        \o (IF c.params.distinct THEN <<"DISTINCT ">> ELSE <<>>)
        \o Join([i \in 1..Len(c.params.projections) |-> <<c.params.projections[i].value>>],
                <<", ">>))>>

GroupByClause_to_cypher(c, indent) ==
    <<Line(0, <<"GROUP BY ">>
        \o Join([i \in 1..Len(c.params) |-> <<c.params[i]>>], <<", ">>))>>

OrderByClause_to_cypher(c, indent) ==
    <<Line(0, <<"ORDER BY ">>
        \o Join([i \in 1..Len(c.params) |-> OrderByExpression_to_cypher(c.params[i])],
                <<", ">>))>>

SkipClause_to_cypher(c, indent) == <<Line(0, <<"SKIP ", IntToStr(c.params)>>)>>

LimitClause_to_cypher(c, indent) == <<Line(0, <<"LIMIT ", IntToStr(c.params)>>)>>

UseClause_to_cypher(c, indent) == <<Line(indent, <<"USE ", c.params>>)>>

UnwindClause_to_cypher(c, indent) ==
    <<Line(indent, <<"UNWIND ", c.params.expression, " AS ", c.params.variable>>)>>

CallProcedureClause_to_cypher(c, indent) ==
    <<Line(indent,
        <<IF c.params.optional THEN "OPTIONAL CALL" ELSE "CALL", " ",
          c.params.procedure_name, "(">>
        \o Join([i \in 1..Len(c.params.arguments) |-> <<"'", c.params.arguments[i], "'">>],
                <<", ">>)
        \o <<")">>)>>

YieldClause_to_cypher(c, indent) ==
    <<Line(indent,
        IF c.params.wildcard THEN <<"YIELD *">>
        ELSE <<"YIELD ">>
             \o Join([i \in 1..Len(c.params.columns) |-> <<c.params.columns[i]>>], <<", ">>))>>

NextClause_to_cypher(c, indent) == <<Line(indent, <<"NEXT">>)>>

(***************************************************************************)
(* Query assembler (api.py, class QueryBuilder).                           *)
(***************************************************************************)
IsPagination(c) == c.kind \in {"OrderByClause", "SkipClause", "LimitClause"}

\* pagination_order.get(c.__class__.__name__, 99)
pagination_order(c) ==
    CASE c.kind = "OrderByClause" -> 0
      [] c.kind = "SkipClause" -> 1
      [] c.kind = "LimitClause" -> 2
      [] OTHER -> 99

\* sorted() left out: the pagination clauses in the order they were added
sorted_as_added(s) == s

RECURSIVE sorted(_)
\* sorted(pagination_clauses, key=pagination_order): Python's sort is stable
sorted(s) ==
    IF s = <<>> THEN <<>>
    ELSE LET acc == sorted(SubSeq(s, 1, Len(s) - 1))
             c == s[Len(s)]
             k == Cardinality({i \in 1..Len(acc) : pagination_order(acc[i]) <= pagination_order(c)})
         IN  SubSeq(acc, 1, k) \o <<c>> \o SubSeq(acc, k + 1, Len(acc))

\* the projection test without CallSubqueryClause
HasProjection_without_subquery(all_clauses) ==
    \E i \in 1..Len(all_clauses) : all_clauses[i].kind \in {"ReturnClause", "WithClause"}

\* any(isinstance(c, (ReturnClause, WithClause, CallSubqueryClause)) for c in all_clauses)
HasProjection(all_clauses) ==
    \E i \in 1..Len(all_clauses) :
        all_clauses[i].kind \in {"ReturnClause", "WithClause", "CallSubqueryClause"}

\* the clause sequence QueryBuilder.to_cypher renders, in rendering order
RenderOrder(clauses) ==
    LET pagination_clauses == SelectSeq(clauses, IsPagination)
        others == SelectSeq(clauses, LAMBDA c : ~IsPagination(c))
        sorted_pagination_clauses == sorted(pagination_clauses)
        all_clauses ==
            IF sorted_pagination_clauses # <<>> /\ ~HasProjection(others)
            THEN Append(others, ReturnClause(<<StrItem("*")>>, FALSE))
            ELSE others
    IN  all_clauses \o sorted_pagination_clauses

RECURSIVE QueryBuilder_raises(_)
\* whether rendering the clauses raises TypeError (a join over a non-str projection)
QueryBuilder_raises(clauses) ==
    \E i \in 1..Len(clauses) :
        \/ /\ clauses[i].kind \in {"ReturnClause", "WithClause"}
           /\ JoinRaises(clauses[i].params.projections)
        \/ /\ clauses[i].kind = "CallSubqueryClause"
           /\ QueryBuilder_raises(clauses[i].params.subquery)

RECURSIVE QueryBuilder_lines(_, _, _)
\* CallSubqueryClause.to_cypher(indent)
CallSubqueryClause_to_cypher(c, indent, nodeState) ==
    <<Line(indent, <<IF c.params.optional THEN "OPTIONAL CALL" ELSE "CALL", "(">>
                   \o Join([i \in 1..Len(c.params.variables) |-> <<c.params.variables[i]>>],
                           <<", ">>)
                   \o <<")", " {">>)>>
    \o QueryBuilder_lines(c.params.subquery, indent + 2, nodeState)
    \o <<Line(indent, <<"}">>)>>

\* clause.to_cypher(indent=indent), by class
Clause_to_cypher(c, indent, nodeState) ==
    CASE c.kind = "MatchClause" -> MatchClause_to_cypher(c, indent, nodeState)
      [] c.kind = "OptionalMatchClause" -> OptionalMatchClause_to_cypher(c, indent, nodeState)
      [] c.kind = "WhereClause" -> WhereClause_to_cypher(c, indent)
      [] c.kind = "WithClause" -> WithClause_to_cypher(c, indent)
      [] c.kind = "ReturnClause" -> ReturnClause_to_cypher(c, indent)
      [] c.kind = "GroupByClause" -> GroupByClause_to_cypher(c, indent)
      [] c.kind = "OrderByClause" -> OrderByClause_to_cypher(c, indent)
      [] c.kind = "SkipClause" -> SkipClause_to_cypher(c, indent)
      [] c.kind = "LimitClause" -> LimitClause_to_cypher(c, indent)
      [] c.kind = "UseClause" -> UseClause_to_cypher(c, indent)
      [] c.kind = "UnwindClause" -> UnwindClause_to_cypher(c, indent)
      [] c.kind = "CallProcedureClause" -> CallProcedureClause_to_cypher(c, indent)
      [] c.kind = "YieldClause" -> YieldClause_to_cypher(c, indent)
      [] c.kind = "CallSubqueryClause" -> CallSubqueryClause_to_cypher(c, indent, nodeState)
      [] c.kind = "NextClause" -> NextClause_to_cypher(c, indent)

\* the lines of QueryBuilder.to_cypher(indent): "\n".join(cypher_lines)
QueryBuilder_lines(clauses, indent, nodeState) ==
    LET all_clauses == RenderOrder(clauses)
    IN  Concat([i \in 1..Len(all_clauses) |-> Clause_to_cypher(all_clauses[i], indent, nodeState)])

\* QueryBuilder.to_cypher(indent): the text, or the exception raised
QueryBuilder_to_cypher(clauses, indent, nodeState) ==
    IF QueryBuilder_raises(RenderOrder(clauses))
    THEN [error |-> "TypeError", lines |-> <<>>]
    ELSE [error |-> "None", lines |-> QueryBuilder_lines(clauses, indent, nodeState)]

\* what a builder method does: the receiver's clause list after the call, and the
\* clause list of the QueryBuilder it returns
Effect(self_after, returned) == [self |-> self_after, ret |-> returned]

\* match appending to the receiver's own list
match_in_place(self, patterns) ==
    Effect(self \o <<MatchClause(patterns)>>, self \o <<MatchClause(patterns)>>)

match(self, patterns) == Effect(self, self \o <<MatchClause(patterns)>>)

optional_match(self, patterns) == Effect(self, self \o <<OptionalMatchClause(patterns)>>)

where(self, condition) == Effect(self, self \o <<WhereClause(condition)>>)

with_(self, projections, distinct) ==
    Effect(self, self \o <<WithClause(projections, distinct)>>)

return_(self, projections, distinct) ==
    LET projections_list ==
            IF projections = <<>> \/ (Len(projections) = 1 /\ projections[1] = StrItem("*"))
            THEN <<StrItem("*")>>
            ELSE projections
    IN  Effect(self, self \o <<ReturnClause(projections_list, distinct)>>)

group_by(self, expressions) == Effect(self, self \o <<GroupByClause(expressions)>>)

\* a str field becomes OrderByExpr(field, False)
order_by(self, fields) ==
    LET expressions ==
            [i \in 1..Len(fields) |->
                IF fields[i].isstr
                THEN [field |-> fields[i].field, descending |-> FALSE]
                ELSE [field |-> fields[i].field, descending |-> fields[i].descending]]
    IN  Effect(self, self \o <<OrderByClause(expressions)>>)

\* skip without removing the SkipClause already present
skip_appending(self, count) == Effect(self, self \o <<SkipClause(count)>>)

skip(self, count) ==
    LET new_clauses == SelectSeq(self, LAMBDA c : c.kind # "SkipClause")
    IN  Effect(self, new_clauses \o <<SkipClause(count)>>)

limit(self, count) ==
    LET new_clauses == SelectSeq(self, LAMBDA c : c.kind # "LimitClause")
    IN  Effect(self, new_clauses \o <<LimitClause(count)>>)

call_subquery(self, subquery, variables) ==
    Effect(self, self \o <<CallSubqueryClause(subquery, variables, FALSE)>>)

optional_call_subquery(self, subquery, variables) ==
    Effect(self, self \o <<CallSubqueryClause(subquery, variables, TRUE)>>)

call_procedure(self, procedure_name, arguments, optional) ==
    Effect(self, self \o <<CallProcedureClause(procedure_name, arguments, optional)>>)

optional_call_procedure(self, procedure_name, arguments) ==
    call_procedure(self, procedure_name, arguments, TRUE)

yield_(self, columns, wildcard) == Effect(self, self \o <<YieldClause(columns, wildcard)>>)

\* use placing the new UseClause last
use_appending(self, database) ==
    Effect(self, SelectSeq(self, LAMBDA c : c.kind # "UseClause") \o <<UseClause(database)>>)

use(self, database) ==
    LET new_clauses == SelectSeq(self, LAMBDA c : c.kind # "UseClause")
    IN  Effect(self, <<UseClause(database)>> \o new_clauses)

unwind(self, expression, variable) ==
    Effect(self, self \o <<UnwindClause(expression, variable)>>)

next(self) == Effect(self, self \o <<NextClause>>)

(***************************************************************************)
(* Inputs of the builder calls.                                            *)
(***************************************************************************)
PatternInputs == {<<"n1">>}
ConditionInputs == {[variable |-> <<"p">>, name |-> "age", operator |-> ">", right |-> "25"]}
ReturnInputs == {<<>>, <<StrItem("*")>>, <<StrItem("p.name")>>}
WithInputs == {<<StrItem("p")>>}
GroupByInputs == {<<"p.department">>}
OrderByInputs == {<<[isstr |-> TRUE, field |-> "p.name", descending |-> FALSE]>>}
ProcedureInputs == {"db.labels"}
YieldInputs == {<<"label">>}
UnwindInputs == {"$rows"}
\* match(node n1).return_("p.name"), the builder nested by call_subquery
SubqueryInputs == {return_(match(<<>>, <<"n1">>).ret, <<StrItem("p.name")>>, FALSE).ret}
\* the receiver of a call: the builder last returned, the receiver of the last call
\* (a second builder derived from it), or a fresh QueryBuilder()
Receivers == {"ret", "self", "new"}

Receiver(r) ==
    CASE r = "ret" -> ret
      [] r = "self" -> recv_after
      [] r = "new" -> <<>>

NoOut == [op |-> "none", target |-> "", error |-> "None", lines |-> <<>>]

Call(method, count, database) == [method |-> method, count |-> count, database |-> database]

\* one builder call on receiver r with the effect eff
Invoke(r, eff, c) ==
    /\ Len(Receiver(r)) < MaxClauses
    /\ recv_before' = Receiver(r)
    /\ recv_after' = eff.self
    /\ ret' = eff.ret
    /\ call' = c
    /\ out' = NoOut
    /\ UNCHANGED <<nodeVars, auxVars>>

Do_match(r, patterns) == Invoke(r, match(Receiver(r), patterns), Call("match", 0, ""))

Do_optional_match(r, patterns) ==
    Invoke(r, optional_match(Receiver(r), patterns), Call("optional_match", 0, ""))

Do_where(r, condition) == Invoke(r, where(Receiver(r), condition), Call("where", 0, ""))

Do_with(r, projections) == Invoke(r, with_(Receiver(r), projections, FALSE), Call("with_", 0, ""))

Do_return(r, projections) ==
    Invoke(r, return_(Receiver(r), projections, FALSE), Call("return_", 0, ""))

Do_group_by(r, expressions) ==
    Invoke(r, group_by(Receiver(r), expressions), Call("group_by", 0, ""))

Do_order_by(r, fields) == Invoke(r, order_by(Receiver(r), fields), Call("order_by", 0, ""))

Do_skip(r, count) == Invoke(r, skip(Receiver(r), count), Call("skip", count, ""))

Do_limit(r, count) == Invoke(r, limit(Receiver(r), count), Call("limit", count, ""))

Do_call_subquery(r, subquery) ==
    Invoke(r, call_subquery(Receiver(r), subquery, <<>>), Call("call_subquery", 0, ""))

Do_optional_call_subquery(r, subquery) ==
    Invoke(r, optional_call_subquery(Receiver(r), subquery, <<>>),
           Call("optional_call_subquery", 0, ""))

Do_call_procedure(r, procedure_name) ==
    Invoke(r, call_procedure(Receiver(r), procedure_name, <<>>, FALSE),
           Call("call_procedure", 0, ""))

Do_optional_call_procedure(r, procedure_name) ==
    Invoke(r, optional_call_procedure(Receiver(r), procedure_name, <<>>),
           Call("optional_call_procedure", 0, ""))

Do_yield(r, columns) == Invoke(r, yield_(Receiver(r), columns, FALSE), Call("yield_", 0, ""))

Do_use(r, database) == Invoke(r, use(Receiver(r), database), Call("use", 0, database))

Do_unwind(r, expression) ==
    Invoke(r, unwind(Receiver(r), expression, "row"), Call("unwind", 0, ""))

Do_next(r) == Invoke(r, next(Receiver(r)), Call("next", 0, ""))

\* text = ret.to_cypher()
Do_to_cypher ==
    /\ out' = [op |-> "to_cypher", target |-> "ret"]
              @@ QueryBuilder_to_cypher(ret, 0, nodes)
    /\ UNCHANGED <<qbVars, nodeVars, auxVars>>

InitQuery ==
    /\ recv_before = <<>>
    /\ recv_after = <<>>
    /\ ret = <<>>
    /\ call = Call("QueryBuilder", 0, "")
    /\ out = NoOut

\* no thread is inside _ensure_variable, no pattern operation and no union call was made
InitIdle ==
    /\ threads = <<>>
    /\ pattern = [op |-> "none", self |-> None, other |-> <<>>,
                  error |-> "None", kind |-> "None", value |-> None]
    /\ compound = [op |-> "none"]

Init ==
    /\ InitQuery
    /\ InitIdle
    /\ _node_counter = 0
    /\ issued = <<>>
    /\ refs = [n \in NodeIds |-> 0]
    /\ nodes = [n \in NodeIds |->
                   IF n = "n1" THEN NodePattern(<<"p">>, <<"Person">>)
                   ELSE NodePattern(None, <<"Company">>)]

Next ==
    \/ \E r \in Receivers, patterns \in PatternInputs : Do_match(r, patterns)
    \/ \E r \in Receivers, patterns \in PatternInputs : Do_optional_match(r, patterns)
    \/ \E r \in Receivers, condition \in ConditionInputs : Do_where(r, condition)
    \/ \E r \in Receivers, projections \in WithInputs : Do_with(r, projections)
    \/ \E r \in Receivers, projections \in ReturnInputs : Do_return(r, projections)
    \/ \E r \in Receivers, expressions \in GroupByInputs : Do_group_by(r, expressions)
    \/ \E r \in Receivers, fields \in OrderByInputs : Do_order_by(r, fields)
    \/ \E r \in Receivers, count \in Counts : Do_skip(r, count)
    \/ \E r \in Receivers, count \in Counts : Do_limit(r, count)
    \/ \E r \in Receivers, subquery \in SubqueryInputs : Do_call_subquery(r, subquery)
    \/ \E r \in Receivers, subquery \in SubqueryInputs : Do_optional_call_subquery(r, subquery)
    \/ \E r \in Receivers, name \in ProcedureInputs : Do_call_procedure(r, name)
    \/ \E r \in Receivers, name \in ProcedureInputs : Do_optional_call_procedure(r, name)
    \/ \E r \in Receivers, columns \in YieldInputs : Do_yield(r, columns)
    \/ \E r \in Receivers, database \in Databases : Do_use(r, database)
    \/ \E r \in Receivers, expression \in UnwindInputs : Do_unwind(r, expression)
    \/ \E r \in Receivers : Do_next(r)
    \/ Do_to_cypher

Spec == Init /\ [][Next]_vars

(***************************************************************************)
(* Operations on NodePattern instances and on the allocator.               *)
(***************************************************************************)
Result(op, target, text) ==
    [op |-> op, target |-> target, error |-> "None", lines |-> <<Line(0, text)>>]

\* a reference to instance n that leaves it as e.node and the counter as e.counter
Reference(n, e, cap, result) ==
    /\ refs[n] < MaxRefs
    /\ e.counter <= cap
    /\ nodes' = [nodes EXCEPT ![n] = e.node]
    /\ _node_counter' = e.counter
    /\ issued' = IF e.counter # _node_counter THEN Append(issued, e.name) ELSE issued
    /\ refs' = [refs EXCEPT ![n] = @ + 1]
    /\ out' = result
    /\ UNCHANGED <<qbVars, auxVars>>

\* str(node): NodePattern.__str__
Node_str(n, cap) ==
    LET e == _ensure_variable(nodes[n], _node_counter)
    IN  Reference(n, e, cap, Result("str", n, e.name))

\* node.prop("age"): NodePattern.prop
Node_prop(n, cap) ==
    LET e == _ensure_variable(nodes[n], _node_counter)
    IN  Reference(n, e, cap, Result("prop", n, Property_to_cypher(e.name, "age")))

\* a to_cypher that references the instance it renders
Node_to_cypher_referencing(n) ==
    LET e == _ensure_variable(nodes[n], _node_counter)
    IN  Reference(n, e, MaxCounter, Result("NodePattern.to_cypher", n, NodePattern_to_cypher(e.node)))

\* node.to_cypher()
Node_to_cypher(n) ==
    /\ out' = Result("NodePattern.to_cypher", n, NodePattern_to_cypher(nodes[n]))
    /\ UNCHANGED <<qbVars, nodeVars, auxVars>>

\* PathPattern([a, b]).to_cypher()
Path_to_cypher(a, b) ==
    /\ out' = Result("PathPattern.to_cypher", a,
                     PathPattern_to_cypher(PathPattern(<<NodeElement(a), NodeElement(b)>>), nodes))
    /\ UNCHANGED <<qbVars, nodeVars, auxVars>>

\* a direct call of _get_next_variable_name()
GetNext(cap) ==
    LET generated == _get_next_variable_name(_node_counter)
    IN  /\ generated.counter <= cap
        /\ _node_counter' = generated.counter
        /\ issued' = Append(issued, generated.name)
        /\ out' = Result("_get_next_variable_name", "", generated.name)
        /\ UNCHANGED <<qbVars, nodes, refs, auxVars>>

\* _reset_variable_counter()
Reset ==
    /\ _node_counter' = 0
    /\ issued' = <<>>
    /\ out' = Result("_reset_variable_counter", "", <<>>)
    /\ UNCHANGED <<qbVars, nodes, refs, auxVars>>

\* node(...): a new NodePattern instance takes the place of instance n
Node_new(n, variable) ==
    /\ nodes' = [nodes EXCEPT ![n] = NodePattern(variable, nodes[n].labels)]
    /\ refs' = [refs EXCEPT ![n] = 0]
    /\ out' = Result("node", n, <<>>)
    /\ UNCHANGED <<qbVars, _node_counter, issued, auxVars>>

VariableInputs == {None, <<"p">>}

InitAlloc ==
    /\ InitQuery
    /\ InitIdle
    /\ _node_counter = 0
    /\ issued = <<>>
    /\ refs = [n \in NodeIds |-> 0]
    /\ nodes \in [NodeIds -> {NodePattern(v, <<"Person">>) : v \in VariableInputs}]

NextAlloc ==
    \/ \E n \in NodeIds : Node_str(n, MaxCounter)
    \/ \E n \in NodeIds : Node_prop(n, MaxCounter)
    \/ \E n \in NodeIds : Node_to_cypher(n)
    \/ \E n \in NodeIds, v \in VariableInputs : Node_new(n, v)
    \/ GetNext(MaxCounter)
    \/ Reset

SpecAlloc == InitAlloc /\ [][NextAlloc]_vars

\* the allocator between resets: anonymous instances and direct calls only
InitPool ==
    /\ InitQuery
    /\ InitIdle
    /\ _node_counter = 0
    /\ issued = <<>>
    /\ refs = [n \in NodeIds |-> 0]
    /\ nodes = [n \in NodeIds |-> NodePattern(None, <<"Person">>)]

NextPool ==
    \/ \E n \in NodeIds : Node_str(n, PoolCap)
    \/ GetNext(PoolCap)

SpecPool == InitPool /\ [][NextPool]_vars

(***************************************************************************)
(* Queries over anonymous nodes: the same NodePattern instance is matched  *)
(* and then referenced by where() or handed to return_().                  *)
(***************************************************************************)
\* q.where(n.prop("age") > literal(25)): the argument is evaluated, then where is called
Do_where_prop(r, n) ==
    LET e == _ensure_variable(nodes[n], _node_counter)
        condition == [variable |-> e.name, name |-> "age", operator |-> ">", right |-> "25"]
        eff == where(Receiver(r), condition)
    IN  /\ Len(Receiver(r)) < MaxClauses
        /\ refs[n] < MaxRefs
        /\ e.counter <= MaxCounter
        /\ recv_before' = Receiver(r)
        /\ recv_after' = eff.self
        /\ ret' = eff.ret
        /\ call' = Call("where", 0, "")
        /\ nodes' = [nodes EXCEPT ![n] = e.node]
        /\ _node_counter' = e.counter
        /\ issued' = IF e.counter # _node_counter THEN Append(issued, e.name) ELSE issued
        /\ refs' = [refs EXCEPT ![n] = @ + 1]
        /\ out' = NoOut
        /\ UNCHANGED auxVars

NextQuery ==
    \/ \E r \in Receivers, n \in NodeIds : Do_match(r, <<n>>)
    \/ \E r \in Receivers, n \in NodeIds : Do_where_prop(r, n)
    \/ \E r \in Receivers, n \in NodeIds : Do_return(r, <<NodeItem(n)>>)
    \/ Do_to_cypher
    \/ \E n \in NodeIds : Node_to_cypher(n)
    \/ \E a, b \in NodeIds : Path_to_cypher(a, b)
    \/ \E n \in NodeIds : Node_str(n, MaxCounter)

SpecQuery == InitPool /\ [][NextQuery]_vars

(***************************************************************************)
(* Properties of the query assembler, checked under Spec.                  *)
(***************************************************************************)
Rendered == out.op = "to_cypher" /\ out.error = "None"

RECURSIVE Outside(_, _)
\* the lines that are outside every CALL { } block, when depth blocks are open
Outside(lines, depth) ==
    IF lines = <<>> THEN <<>>
    ELSE LET l == Head(lines)
             d == IF l.text = <<"}">> THEN depth - 1 ELSE depth
         IN  (IF d = 0 THEN <<l>> ELSE <<>>)
             \o Outside(Tail(lines), IF l.text[Len(l.text)] = " {" THEN d + 1 ELSE d)

\* the lines of the query itself, without the bodies of its CALL subqueries
TopLevel(lines) == Outside(lines, 0)

Keyword(l) == l.text[1]

PaginationLines(lines) ==
    SelectSeq(TopLevel(lines), LAMBDA l : Keyword(l) \in {"ORDER BY ", "SKIP ", "LIMIT "})

KeywordRank(l) ==
    CASE Keyword(l) = "ORDER BY " -> 0
      [] Keyword(l) = "SKIP " -> 1
      [] Keyword(l) = "LIMIT " -> 2

Kinds(clauses) == [i \in 1..Len(clauses) |-> clauses[i].kind]

OfKind(clauses, kind) == SelectSeq(clauses, LAMBDA c : c.kind = kind)

NotOfKind(clauses, kind) == SelectSeq(clauses, LAMBDA c : c.kind # kind)

ImplicitReturnDue(clauses) ==
    /\ \E i \in 1..Len(clauses) : clauses[i].kind \in {"OrderByClause", "SkipClause", "LimitClause"}
    /\ \A i \in 1..Len(clauses) :
           clauses[i].kind \notin {"ReturnClause", "WithClause", "CallSubqueryClause"}

ReturnLines(lines) == SelectSeq(TopLevel(lines), LAMBDA l : Keyword(l) = "RETURN ")

C4_SkipLimitLastWins ==
    /\ \A q \in {recv_before, recv_after, ret} :
           /\ Len(OfKind(q, "SkipClause")) <= 1
           /\ Len(OfKind(q, "LimitClause")) <= 1
    /\ call.method = "skip" =>
           /\ OfKind(ret, "SkipClause") = <<SkipClause(call.count)>>
           /\ NotOfKind(ret, "SkipClause") = NotOfKind(recv_before, "SkipClause")
    /\ call.method = "limit" =>
           /\ OfKind(ret, "LimitClause") = <<LimitClause(call.count)>>
           /\ NotOfKind(ret, "LimitClause") = NotOfKind(recv_before, "LimitClause")
    /\ call.method \notin {"skip", "QueryBuilder"} =>
           OfKind(ret, "SkipClause") = OfKind(recv_before, "SkipClause")
    /\ call.method \notin {"limit", "QueryBuilder"} =>
           OfKind(ret, "LimitClause") = OfKind(recv_before, "LimitClause")

\* C4 witness: skip called on a builder that holds a SkipClause with another
\* count, followed by a LimitClause
C4_Witness ==
    /\ call.method = "skip"
    /\ Len(recv_before) = 2
    /\ recv_before[1].kind = "SkipClause"
    /\ recv_before[1].params # call.count
    /\ recv_before[2].kind = "LimitClause"
    /\ ret = <<recv_before[2], SkipClause(call.count)>>

\* C5: a builder on which use() was called holds exactly one UseClause, at the
\* front, naming the database of the latest use() call; the other clauses keep
\* their order; and USE is the first line of the rendered text.
C5_UseFirst ==
    /\ \A q \in {recv_before, recv_after, ret} :
           OfKind(q, "UseClause") # <<>> =>
               /\ Len(OfKind(q, "UseClause")) = 1
               /\ q[1].kind = "UseClause"
    /\ call.method = "use" =>
           ret = <<UseClause(call.database)>> \o NotOfKind(recv_before, "UseClause")
    /\ call.method \notin {"use", "QueryBuilder"} =>
           OfKind(ret, "UseClause") = OfKind(recv_before, "UseClause")
    /\ (Rendered /\ OfKind(ret, "UseClause") # <<>>) =>
           out.lines[1] = Line(0, <<"USE ", OfKind(ret, "UseClause")[1].params>>)

\* C5 witness: use() called on a builder that named another database and holds
\* a further clause, and the result rendered
C5_Witness ==
    /\ Rendered
    /\ call.method = "use"
    /\ Len(recv_before) = 2
    /\ recv_before[1].kind = "UseClause"
    /\ recv_before[1].params # call.database
    /\ ret = <<UseClause(call.database), recv_before[2]>>

NonReplacing ==
    {"match", "optional_match", "where", "with_", "return_", "group_by", "order_by",
     "call_subquery", "optional_call_subquery", "call_procedure",
     "optional_call_procedure", "yield_", "unwind", "next"}

\* C6: a builder method leaves its receiver's clause list as it was and returns
\* a builder; for a method that replaces nothing the returned list is the
\* receiver's list followed by exactly one clause.
C6_ReceiverUnchanged ==
    /\ recv_after = recv_before
    /\ call.method \in NonReplacing =>
           /\ Len(ret) = Len(recv_before) + 1
           /\ SubSeq(ret, 1, Len(recv_before)) = recv_before

\* C6 witness: match called on a builder of two clauses, which is then used again
C6_Witness ==
    /\ call.method = "match"
    /\ Len(recv_before) = 2
    /\ ret = recv_before \o <<MatchClause(<<"n1">>)>>
    /\ recv_after = recv_before

(***************************************************************************)
(* Properties of the lazy identifier allocator.                            *)
(***************************************************************************)
\* the step is a reference (str or prop) to instance n
IsReference(n) == refs'[n] = refs[n] + 1

\* the identifier a str or prop result shows
NameShown(o) ==
    IF o.op = "prop"
    THEN SubSeq(o.lines[1].text, 1, Len(o.lines[1].text) - 2)
    ELSE o.lines[1].text

\* the name the allocator hands out when the counter stands at k, k within the pool
PoolName(k) == <<"_node_", _JAZZ_MUSICIANS[k + 1]>>

\* C7: an anonymous instance gets its identifier at its first reference, which
\* takes the allocator's next name and advances the counter by one; every later
\* reference shows that same name and leaves the counter alone; an identifier
\* once assigned to an instance is never replaced.
C7_AssignedOnce ==
    [][\A n \in NodeIds :
          /\ (IsReference(n) /\ nodes[n].variable = None) =>
                 IF nodes[n]._lazy_variable = None
                 THEN /\ nodes'[n]._lazy_variable = PoolName(_node_counter)
                      /\ NameShown(out') = PoolName(_node_counter)
                      /\ _node_counter' = _node_counter + 1
                 ELSE /\ nodes'[n]._lazy_variable = nodes[n]._lazy_variable
                      /\ NameShown(out') = nodes[n]._lazy_variable
                      /\ _node_counter' = _node_counter
          /\ (nodes[n]._lazy_variable # None /\ ~(out'.op = "node" /\ out'.target = n)) =>
                 nodes'[n]._lazy_variable = nodes[n]._lazy_variable
      ]_vars

\* C7 witness: an anonymous instance referenced twice, by str and then by prop,
\* after which the allocator has handed out one name only
C7_Witness ==
    \E n \in NodeIds :
        /\ refs[n] = 2
        /\ nodes[n].variable = None
        /\ nodes[n]._lazy_variable = PoolName(0)
        /\ out.op = "prop"
        /\ out.target = n
        /\ NameShown(out) = PoolName(0)
        /\ _node_counter = 1

\* C9: between two resets the allocator never returns the same name twice: the
\* name it returned last differs from every name it returned before.
C9_NamesNeverRepeat ==
    \A i \in 1..(Len(issued) - 1) : issued[i] # issued[Len(issued)]

\* C27: an instance created with an explicit identifier never holds a lazy
\* identifier; a reference to it shows the explicit identifier and leaves the
\* instance and the allocator counter as they were; and it renders with the
\* explicit identifier.
C27_ExplicitIdentifierKept ==
    [][\A n \in NodeIds :
          /\ nodes'[n].variable # None => nodes'[n]._lazy_variable = None
          /\ (IsReference(n) /\ nodes[n].variable # None) =>
                 /\ NameShown(out') = nodes[n].variable
                 /\ nodes'[n] = nodes[n]
                 /\ _node_counter' = _node_counter
                 /\ issued' = issued
          /\ (/\ out'.op = "NodePattern.to_cypher"
              /\ out'.target = n
              /\ nodes[n].variable # None) =>
                 out'.lines[1].text = <<"(">> \o nodes[n].variable \o <<":", "Person", ")">>
      ]_vars

\* C27 witness: an instance with the identifier p was referenced twice, the second
\* time by prop, after the allocator had handed out a name to another instance
C27_Witness ==
    \E n \in NodeIds :
        /\ refs[n] = 2
        /\ nodes[n].variable = <<"p">>
        /\ nodes[n]._lazy_variable = None
        /\ out.op = "prop"
        /\ out.target = n
        /\ NameShown(out) = <<"p">>
        /\ _node_counter = 1

(***************************************************************************)
(* Properties of rendering over anonymous nodes, checked under SpecQuery.  *)
(***************************************************************************)
IsRendering(o) == o.op \in {"to_cypher", "NodePattern.to_cypher", "PathPattern.to_cypher"}

\* C8: rendering a node, a path or a query assigns no identifier and does not
\* advance the counter; a node that was never referenced renders anonymous.
C8_RenderingAssignsNothing ==
    [][(IsRendering(out') /\ out' # out) =>
          /\ nodes' = nodes
          /\ _node_counter' = _node_counter
          /\ issued' = issued
          /\ \A n \in NodeIds :
                 (/\ out'.op = "NodePattern.to_cypher"
                  /\ out'.target = n
                  /\ nodes[n].variable = None
                  /\ nodes[n]._lazy_variable = None) =>
                     out'.lines[1].text = <<"(", ":", "Person", ")">>
      ]_vars

\* C8 witness: a query matching a never-referenced node has been rendered, after
\* the other node took a name, and the node is still without identifier
C8_Witness ==
    /\ out.op = "to_cypher"
    /\ out.error = "None"
    /\ Kinds(ret) = <<"MatchClause">>
    /\ nodes[ret[1].params[1]]._lazy_variable = None
    /\ out.lines = <<Line(0, <<"MATCH ", "(", ":", "Person", ")">>)>>
    /\ _node_counter = 1

\* C10: an anonymous node passed to match() and then referenced in where() or
\* handed to return_() shows one generated identifier in the MATCH line and in
\* the WHERE or RETURN line of the rendered query.
C10_SameIdentifier ==
    \A n \in NodeIds :
        (/\ out.op = "to_cypher"
         /\ Len(ret) = 2
         /\ ret[1] = MatchClause(<<n>>)
         /\ \/ ret[2] = ReturnClause(<<NodeItem(n)>>, FALSE)
            \/ /\ ret[2].kind = "WhereClause"
               /\ nodes[n]._lazy_variable # None
               /\ ret[2].params.variable = nodes[n]._lazy_variable)
        => \E k \in 0..MaxCounter :
               /\ out.error = "None"
               /\ Len(out.lines) = 2
               /\ out.lines[1].text = <<"MATCH ", "(">> \o PoolName(k) \o <<":", "Person", ")">>
               /\ out.lines[2].text =
                      IF ret[2].kind = "ReturnClause"
                      THEN <<"RETURN ">> \o PoolName(k)
                      ELSE <<"WHERE ">> \o PoolName(k) \o <<".", "age", " ", ">", " ", "25">>

(***************************************************************************)
(* Two threads referencing NodePattern instances: _ensure_variable and     *)
(* _get_next_variable_name taken one read or write at a time.  Neither     *)
(* function takes a lock.                                                  *)
(***************************************************************************)
ThreadIds == {"t1", "t2"}

\* a thread that is not inside _ensure_variable
IdleThread ==
    [pc |-> "idle", self |-> "", musician |-> "", loaded |-> 0, generated |-> None,
     stored |-> FALSE, returned |-> None]

\* thread t calls nodes[n]._ensure_variable()
Begin(t, n) ==
    /\ threads[t].pc = "idle"
    /\ refs[n] < MaxRefs
    /\ _node_counter < MaxCounter
    /\ threads' = [threads EXCEPT ![t] = [IdleThread EXCEPT !.pc = "154", !.self = n]]
    /\ refs' = [refs EXCEPT ![n] = @ + 1]
    /\ UNCHANGED <<qbVars, out, _node_counter, nodes, issued, pattern, compound>>

\* one step of _get_next_variable_name() in thread t; pc is the source line reached.
\* The test of line 54 holds for every counter below Len(_JAZZ_MUSICIANS).
_get_next_variable_name_thread(t) ==
    LET th == threads[t]
    IN  \/ /\ th.pc = "54"
           /\ threads' = [threads EXCEPT ![t].musician = _JAZZ_MUSICIANS[_node_counter + 1],
                                         ![t].pc = "60_load"]
           /\ UNCHANGED <<_node_counter, issued>>
        \/ /\ th.pc = "60_load"
           /\ threads' = [threads EXCEPT ![t].loaded = _node_counter, ![t].pc = "60_store"]
           /\ UNCHANGED <<_node_counter, issued>>
        \/ /\ th.pc = "60_store"
           /\ _node_counter' = th.loaded + 1
           /\ threads' = [threads EXCEPT ![t].pc = "61"]
           /\ UNCHANGED issued
        \/ /\ th.pc = "61"
           /\ threads' = [threads EXCEPT ![t].generated = <<"_node_", th.musician>>,
                                         ![t].pc = "162"]
           /\ issued' = Append(issued, <<"_node_", th.musician>>)
           /\ UNCHANGED _node_counter

\* one step of NodePattern._ensure_variable() in thread t; pc is the source line reached
_ensure_variable_thread(t) ==
    LET th == threads[t]
        self == nodes[th.self]
        Return(name) == threads' = [threads EXCEPT ![t].returned = name, ![t].pc = "done"]
        Goto(line) == threads' = [threads EXCEPT ![t].pc = line]
    IN  \/ /\ th.pc = "154"
           /\ IF self.variable # None THEN Goto("155") ELSE Goto("157")
           /\ UNCHANGED <<nodes, _node_counter, issued>>
        \/ /\ th.pc = "155"
           /\ Return(self.variable)
           /\ UNCHANGED <<nodes, _node_counter, issued>>
        \/ /\ th.pc = "157"
           /\ IF self._lazy_variable # None THEN Goto("158") ELSE Goto("54")
           /\ UNCHANGED <<nodes, _node_counter, issued>>
        \/ /\ th.pc = "158"
           /\ Return(self._lazy_variable)
           /\ UNCHANGED <<nodes, _node_counter, issued>>
        \/ /\ _get_next_variable_name_thread(t)
           /\ UNCHANGED nodes
        \/ /\ th.pc = "162"
           /\ nodes' = [nodes EXCEPT ![th.self]._lazy_variable = th.generated]
           /\ threads' = [threads EXCEPT ![t].stored = TRUE, ![t].pc = "163"]
           /\ UNCHANGED <<_node_counter, issued>>
        \/ /\ th.pc = "163"
           /\ Return(th.generated)
           /\ UNCHANGED <<nodes, _node_counter, issued>>

Step(t) ==
    /\ _ensure_variable_thread(t)
    /\ UNCHANGED <<qbVars, out, refs, pattern, compound>>

\* the caller of thread t takes the returned name; the thread is free for another call
Finish(t) ==
    /\ threads[t].pc = "done"
    /\ \A u \in ThreadIds : threads[u].pc \in {"idle", "done"}
    /\ threads' = [threads EXCEPT ![t] = IdleThread]
    /\ UNCHANGED <<qbVars, out, nodeVars, pattern, compound>>

InitRace ==
    /\ InitQuery
    /\ _node_counter = 0
    /\ issued = <<>>
    /\ refs = [n \in NodeIds |-> 0]
    /\ nodes \in [NodeIds -> {NodePattern(v, <<"Person">>) : v \in VariableInputs}]
    /\ threads = [t \in ThreadIds |-> IdleThread]
    /\ pattern = [op |-> "none", self |-> None, other |-> <<>>,
                  error |-> "None", kind |-> "None", value |-> None]
    /\ compound = [op |-> "none"]

NextRace ==
    \/ \E t \in ThreadIds, n \in NodeIds : Begin(t, n)
    \/ \E t \in ThreadIds : Step(t)
    \/ \E t \in ThreadIds : Finish(t)

SpecRace == InitRace /\ [][NextRace]_vars

\* two threads have both returned from _ensure_variable on the same instance
BothReturned(t, u) ==
    /\ t # u
    /\ threads[t].pc = "done"
    /\ threads[u].pc = "done"
    /\ threads[t].self = threads[u].self

\* C11: when two references to the same anonymous NodePattern instance interleave
\* between the check of _lazy_variable, the read and increment of the counter and
\* the store on the instance, both return the same identifier and only one of
\* them writes the instance's _lazy_variable.
C11_FirstReferenceWins ==
    \A t, u \in ThreadIds :
        (BothReturned(t, u) /\ nodes[threads[t].self].variable = None) =>
            /\ threads[t].returned = threads[u].returned
            /\ ~(threads[t].stored /\ threads[u].stored)

(***************************************************************************)
(* Pattern construction: path(), PathPattern.where / as_ / concat and the  *)
(* + operator of NodePattern, RelationshipPattern and PathPattern.  An     *)
(* operation returns a value of some class or raises.                      *)
(***************************************************************************)
Returns(kind, value) == [error |-> "None", kind |-> kind, value |-> value]
Raises(error) == [error |-> error, kind |-> "None", value |-> None]

\* path(*elements)
path(elements) == Returns("PathPattern", PathPattern(Flatten(elements)))

\* PathPattern.as_(variable)
PathPattern_as_(self, variable) ==
    Returns("PathPattern", PathPattern_init(self.elements, variable, self.condition))

\* PathPattern.where(condition)
PathPattern_where(self, condition) ==
    IF self.elements # <<>> /\ self.elements[Len(self.elements)].type = "RelationshipPattern"
    THEN Raises("ValueError")
    ELSE Returns("PathPattern", PathPattern_init(self.elements, self.variable, condition))

\* bool(other): an empty str is false, a pattern object is true
Truthy(other) == ~(other.type = "str" /\ other.value = "")

\* PathPattern.concat that keeps the first node of the right-hand path
PathPattern_concat_keeping(self, other, nodeState) ==
    LET o == IF other.type = "PathPattern" THEN other.value ELSE PathPattern(<<other>>)
    IN  Returns("PathPattern", PathPattern_init(self.elements \o o.elements, self.variable, None))

\* PathPattern.concat that takes two nodes for one only when both carry an identifier
PathPattern_concat_explicit_only(self, other, nodeState) ==
    LET o == IF other.type = "PathPattern" THEN other.value ELSE PathPattern(<<other>>)
        last_elem == self.elements[Len(self.elements)]
        first_elem == o.elements[1]
    IN  IF self.elements = <<>> THEN Returns("PathPattern", o)
        ELSE IF o.elements = <<>> THEN Raises("IndexError")
        ELSE IF last_elem.type = "RelationshipPattern" /\ first_elem.type = "RelationshipPattern"
        THEN Raises("ValueError")
        ELSE IF /\ last_elem.type = "NodePattern"
                /\ first_elem.type = "NodePattern"
                /\ nodeState[last_elem.value].variable # None
                /\ nodeState[last_elem.value].variable = nodeState[first_elem.value].variable
        THEN Returns("PathPattern",
                     PathPattern_init(self.elements \o Tail(o.elements), self.variable, None))
        ELSE Returns("PathPattern",
                     PathPattern_init(self.elements \o o.elements, self.variable, None))

\* PathPattern.concat(other)
PathPattern_concat(self, other, nodeState) ==
    IF self.elements = <<>>
    THEN Returns("PathPattern",
                 IF other.type = "PathPattern" THEN other.value ELSE PathPattern(<<other>>))
    ELSE IF ~Truthy(other) THEN Returns("PathPattern", self)
    ELSE LET o == IF other.type = "PathPattern" THEN other.value ELSE PathPattern(<<other>>)
             last_elem == self.elements[Len(self.elements)]
             first_elem == o.elements[1]
         IN  IF /\ last_elem.type = "RelationshipPattern"
                /\ o.elements # <<>>
                /\ first_elem.type = "RelationshipPattern"
             THEN Raises("ValueError")
             ELSE IF o.elements = <<>> THEN Raises("IndexError")
             ELSE IF /\ last_elem.type = "NodePattern"
                     /\ first_elem.type = "NodePattern"
                     /\ nodeState[last_elem.value].variable = nodeState[first_elem.value].variable
             THEN Returns("PathPattern",
                          PathPattern_init(self.elements \o Tail(o.elements), self.variable, None))
             ELSE Returns("PathPattern",
                          PathPattern_init(self.elements \o o.elements, self.variable, None))

\* PathPattern.__add__(other)
PathPattern___add__(self, other, nodeState) == PathPattern_concat(self, other, nodeState)

\* NodePattern.__add__(other), self being instance n
NodePattern___add__(n, other, nodeState) ==
    IF other.type \in {"NodePattern", "RelationshipPattern"}
    THEN Returns("PathPattern", PathPattern(<<NodeElement(n), other>>))
    ELSE IF other.type = "PathPattern"
    THEN PathPattern_concat(PathPattern(<<NodeElement(n)>>), other, nodeState)
    ELSE Raises("TypeError")

\* RelationshipPattern.__add__(other)
RelationshipPattern___add__(self, other, nodeState) ==
    IF other.type = "NodePattern"
    THEN Returns("PathPattern", PathPattern(<<self, other>>))
    ELSE IF other.type = "PathPattern"
    THEN PathPattern_concat(PathPattern(<<self>>), other, nodeState)
    ELSE Raises("TypeError")

\* an optional int argument: <<>> when it is not given, <<k>> when it is k
HopInputs == {<<>>, <<0>>, <<1>>}

\* QuantifiedPathPattern(path, quantifier)
QuantifiedPathPattern(p, quantifier) == [path |-> p, quantifier |-> quantifier, variable |-> None]

\* PathPattern.quantify(min_hops, max_hops)
PathPattern_quantify(self, min_hops, max_hops) ==
    IF min_hops = <<>> /\ max_hops = <<>> THEN Raises("ValueError")
    ELSE IF min_hops # <<>> /\ max_hops # <<>> /\ min_hops[1] > max_hops[1]
    THEN Raises("ValueError")
    ELSE LET or_empty(hops) == IF hops = <<>> \/ hops[1] = 0 THEN "" ELSE IntToStr(hops[1])
         IN  Returns("QuantifiedPathPattern",
                     QuantifiedPathPattern(self, <<"{", or_empty(min_hops), ", ",
                                                   or_empty(max_hops), "}">>))

\* RelationshipPattern.quantify(min_hops, max_hops)
RelationshipPattern_quantify(self, min_hops, max_hops) ==
    IF min_hops = <<>> /\ max_hops = <<>> THEN Raises("ValueError")
    ELSE LET min_str == IF min_hops # <<>> THEN IntToStr(min_hops[1]) ELSE ""
             max_str == IF max_hops # <<>> THEN IntToStr(max_hops[1]) ELSE ""
         IN  Returns("QuantifiedPathPattern",
                     QuantifiedPathPattern(PathPattern(<<self>>),
                                           <<"{", min_str, ",", max_str, "}">>))

\* the longest path built
MaxPath == 3

\* the path the last operation returned, or path() when it returned none
Held ==
    IF pattern.error = "None" /\ pattern.kind = "PathPattern" THEN pattern.value
    ELSE PathPattern(<<>>)

\* what a pattern operation is given as its argument: nodes, relationships, paths,
\* and a str where a pattern is expected
Operands ==
    << NodeElement("n1"), NodeElement("n2"),
       RelationshipPattern(">"),
       PathElement(Held),
       PathElement(PathPattern(<<NodeElement("n1"), RelationshipPattern(">"), NodeElement("n2")>>)),
       PathElement(PathPattern(<<>>)),
       StrItem("invalid"), StrItem("") >>

Patterns == SelectSeq(Operands, LAMBDA x : x.type # "str")

ConditionTexts == {<<"a.age > 25">>}

\* the operation op of self on other has returned or raised r
Apply(op, self, other, r) ==
    /\ (r.kind = "PathPattern") => Len(r.value.elements) <= MaxPath
    /\ pattern' = [op |-> op, self |-> self, other |-> other,
                   error |-> r.error, kind |-> r.kind, value |-> r.value]
    /\ UNCHANGED <<qbVars, out, nodeVars, threads, compound>>

InitPath ==
    /\ InitQuery
    /\ _node_counter = 0
    /\ issued = <<>>
    /\ refs = [n \in NodeIds |-> 0]
    /\ nodes \in [NodeIds -> {NodePattern(v, <<"Person">>) : v \in VariableInputs}]
    /\ nodes["n1"].variable = None => nodes["n2"].variable = None
    /\ threads = <<>>
    /\ compound = [op |-> "none"]
    /\ pattern = [op |-> "path", self |-> None, other |-> <<>>,
                  error |-> "None", kind |-> "PathPattern", value |-> PathPattern(<<>>)]

NextPath ==
    \/ \E i \in 1..Len(Patterns) :
           Apply("path", None, <<PathElement(Held), Patterns[i]>>,
                 path(<<PathElement(Held), Patterns[i]>>))
    \/ \E i \in 1..Len(Patterns) :
           Apply("PathPattern", None, <<Patterns[i]>>, Returns("PathPattern", PathPattern(<<Patterns[i]>>)))
    \/ Apply("path", None, <<>>, path(<<>>))
    \/ \E c \in ConditionTexts :
           Apply("where", PathElement(Held), c, PathPattern_where(Held, c))
    \/ Apply("as_", PathElement(Held), <<"route">>, PathPattern_as_(Held, <<"route">>))
    \/ \E i \in 1..Len(Operands) :
           Apply("concat", PathElement(Held), Operands[i], PathPattern_concat(Held, Operands[i], nodes))
    \/ \E i \in 1..Len(Operands) :
           Apply("+", PathElement(Held), Operands[i], PathPattern___add__(Held, Operands[i], nodes))
    \/ \E n \in NodeIds, i \in 1..Len(Operands) :
           Apply("+", NodeElement(n), Operands[i], NodePattern___add__(n, Operands[i], nodes))
    \/ \E d \in {">"}, i \in 1..Len(Operands) :
           Apply("+", RelationshipPattern(d), Operands[i],
                 RelationshipPattern___add__(RelationshipPattern(d), Operands[i], nodes))
    \/ \E min_hops, max_hops \in HopInputs :
           Apply("quantify", PathElement(Held), <<min_hops, max_hops>>,
                 PathPattern_quantify(Held, min_hops, max_hops))
    \/ \E min_hops, max_hops \in HopInputs :
           Apply("quantify", RelationshipPattern(">"), <<min_hops, max_hops>>,
                 RelationshipPattern_quantify(RelationshipPattern(">"), min_hops, max_hops))

SpecPath == InitPath /\ [][NextPath]_vars

\* the PathPattern the last operation produced
Produced == pattern.error = "None" /\ pattern.kind = "PathPattern"

\* C12: every PathPattern produced by the constructor, path(), + or concat() has
\* no two consecutive NodePattern elements; between the last node of the left
\* operand and a first node of the right operand with another identifier there
\* is an anonymous undirected relationship.
C12_NoAdjacentNodes ==
    Produced =>
        LET e == pattern.value.elements
        IN  /\ \A i \in 1..(Len(e) - 1) :
                   ~(e[i].type = "NodePattern" /\ e[i + 1].type = "NodePattern")
            /\ (/\ pattern.op \in {"+", "concat"}
                /\ pattern.self.type = "PathPattern"
                /\ pattern.self.value.elements # <<>>
                /\ pattern.self.value.elements[Len(pattern.self.value.elements)].type = "NodePattern"
                /\ pattern.other.type = "NodePattern"
                /\ nodes[pattern.self.value.elements[Len(pattern.self.value.elements)].value].variable
                       # nodes[pattern.other.value].variable)
               => LET k == Len(pattern.self.value.elements)
                  IN  /\ Len(e) = k + 2
                      /\ e[k + 1] = RelationshipPattern("-")
                      /\ e[k + 2] = pattern.other

\* C12 witness: a path ending in a node was concatenated with a node of another
\* identifier, and the result holds the inserted relationship
C12_Witness ==
    /\ Produced
    /\ pattern.op = "concat"
    /\ pattern.self.type = "PathPattern"
    /\ Len(pattern.self.value.elements) = 1
    /\ pattern.self.value.elements[1].type = "NodePattern"
    /\ pattern.other.type = "NodePattern"
    /\ nodes[pattern.self.value.elements[1].value].variable # nodes[pattern.other.value].variable
    /\ Len(pattern.value.elements) = 3

\* the last operation concatenated a path ending in a node with a pattern that
\* starts with a node of an equal identifier
SharedAnchor ==
    /\ pattern.op \in {"+", "concat"}
    /\ pattern.self.type = "PathPattern"
    /\ pattern.self.value.elements # <<>>
    /\ pattern.self.value.elements[Len(pattern.self.value.elements)].type = "NodePattern"
    /\ pattern.other.type \in {"NodePattern", "PathPattern"}
    /\ LET right == Flatten(<<pattern.other>>)
           last_elem == pattern.self.value.elements[Len(pattern.self.value.elements)]
       IN  /\ right # <<>>
           /\ right[1].type = "NodePattern"
           /\ nodes[last_elem.value].variable = nodes[right[1].value].variable

\* C13: concatenating a path whose last element is a node with a path whose
\* first element is a node with an equal identifier returns a path of
\* len(left) + len(right) - 1 elements: the left elements, then the right
\* elements without the first, so the shared node occurs once.
C13_SharedNodeOnce ==
    SharedAnchor =>
        LET left == pattern.self.value.elements
            right == Flatten(<<pattern.other>>)
        IN  /\ Produced
            /\ Len(pattern.value.elements) = Len(left) + Len(right) - 1
            /\ pattern.value.elements = left \o Tail(right)

\* C13 witness: a path ending in the node n2 was concatenated with a path of
\* three elements starting with another node instance of the same identifier
C13_Witness ==
    /\ SharedAnchor
    /\ Produced
    /\ pattern.other.type = "PathPattern"
    /\ Len(pattern.other.value.elements) = 3
    /\ pattern.self.value.elements[Len(pattern.self.value.elements)].value = "n2"
    /\ pattern.other.value.elements[1].value = "n1"
    /\ nodes["n1"].variable # None
    /\ Len(pattern.value.elements) = 3

\* C14: PathPattern.where raises ValueError when the path's last element is a
\* relationship, and in every PathPattern built through path(), where(), as_(),
\* + and concat() that carries a condition the last element is a NodePattern.
C14_ConditionOnNodeEnd ==
    /\ (/\ pattern.op = "where"
        /\ pattern.self.value.elements # <<>>
        /\ pattern.self.value.elements[Len(pattern.self.value.elements)].type = "RelationshipPattern")
       => pattern.error = "ValueError"
    /\ (Produced /\ pattern.value.condition # None) =>
           /\ pattern.value.elements # <<>>
           /\ pattern.value.elements[Len(pattern.value.elements)].type = "NodePattern"

\* C15: + applied to a NodePattern, a RelationshipPattern or a PathPattern with a
\* right operand that is no node, relationship or path pattern raises TypeError
\* and yields no pattern.
C15_AddRejectsOtherTypes ==
    (pattern.op = "+" /\ pattern.other.type = "str") =>
        /\ pattern.error = "TypeError"
        /\ pattern.kind = "None"

\* C16: quantify(min, max) raises ValueError when both bounds are absent or when
\* min > max, on a PathPattern and on a RelationshipPattern alike, and then
\* produces no quantified pattern.
C16_QuantifyRejectsBadBounds ==
    LET min_hops == pattern.other[1]
        max_hops == pattern.other[2]
    IN  (/\ pattern.op = "quantify"
         /\ \/ min_hops = <<>> /\ max_hops = <<>>
            \/ min_hops # <<>> /\ max_hops # <<>> /\ min_hops[1] > max_hops[1])
        => /\ pattern.error = "ValueError"
           /\ pattern.kind = "None"

\* C22: PathPattern.where(condition) on a path without elements raises ValueError
\* and returns no path.
C22_EmptyPathWhereRaises ==
    (pattern.op = "where" /\ pattern.self.value.elements = <<>>)
        => /\ pattern.error = "ValueError"
           /\ pattern.kind = "None"

\* C23: concat and + of two paths one of which is empty raise nothing and return
\* a path equal to the other one, whichever side the empty path is on.
C23_EmptyPathIdentity ==
    (/\ pattern.op \in {"concat", "+"}
     /\ pattern.self.type = "PathPattern"
     /\ pattern.other.type = "PathPattern"
     /\ pattern.self.value.elements = <<>> \/ pattern.other.value.elements = <<>>)
        => /\ Produced
           /\ pattern.value = IF pattern.self.value.elements = <<>>
                              THEN pattern.other.value ELSE pattern.self.value

\* the elements a pattern operand contributes to a path
ElementsOf(x) == Flatten(<<x>>)

\* C25: concat and + of a path that ends in a relationship with a pattern that
\* starts with a relationship raise ValueError, and no PathPattern returned by
\* path(), + or concat() holds two adjacent RelationshipPattern elements.
C25_NoAdjacentRelationships ==
    /\ (/\ pattern.op \in {"concat", "+"}
        /\ pattern.self.type = "PathPattern"
        /\ pattern.other.type \in {"PathPattern", "RelationshipPattern"}
        /\ ElementsOf(pattern.self) # <<>>
        /\ ElementsOf(pattern.other) # <<>>
        /\ ElementsOf(pattern.self)[Len(ElementsOf(pattern.self))].type = "RelationshipPattern"
        /\ ElementsOf(pattern.other)[1].type = "RelationshipPattern")
       => pattern.error = "ValueError"
    /\ (Produced /\ pattern.op \in {"path", "concat", "+"}) =>
           LET e == pattern.value.elements
           IN  \A i \in 1..(Len(e) - 1) :
                   ~(e[i].type = "RelationshipPattern" /\ e[i + 1].type = "RelationshipPattern")

\* str(bound) of a bound that was supplied, nothing for one that was not
BoundText(hops) == IF hops = <<>> THEN "" ELSE IntToStr(hops[1])

\* C26: the quantifier of a quantified pattern returned by quantify(min, max), of a
\* PathPattern or a RelationshipPattern, is {min,max} with each supplied bound
\* written out, 0 included, and nothing in the place of a bound not supplied.
C26_QuantifierText ==
    (pattern.op = "quantify" /\ pattern.error = "None")
        => pattern.value.quantifier
               = <<"{", BoundText(pattern.other[1]), ",", BoundText(pattern.other[2]), "}">>

(***************************************************************************)
(* Construction of nodes: the node() factory of api.py and the NodePattern *)
(* class called directly, each followed by to_cypher() of what was built.  *)
(***************************************************************************)
\* node(*labels, variable=variable, **properties), every label a str
node(labels, variable, properties) ==
    LET first_is_variable == variable = None /\ labels # <<>>
        processed_labels ==
            [i \in 1..Len(IF first_is_variable THEN Tail(labels) ELSE labels) |->
                [type |-> "LabelAtom",
                 value |-> (IF first_is_variable THEN Tail(labels) ELSE labels)[i]]]
    IN  NodePattern_init(IF first_is_variable THEN <<labels[1]>> ELSE variable,
                         processed_labels, properties, <<>>, <<>>, <<>>)

LabelInputs == {<<>>, <<"Person">>, <<"Person", "Employee">>, <<"p", "Person", "Employee">>}

\* the degree arguments of a call, each given or not
DegreeInputs(max_degree, degree_direction, degree_rel_type) ==
    [max_degree |-> IF max_degree THEN <<5>> ELSE <<>>,
     degree_direction |-> IF degree_direction THEN <<"out">> ELSE <<>>,
     degree_rel_type |-> IF degree_rel_type THEN <<"KNOWS">> ELSE <<>>]

\* the keyword arguments of a node() call that are no parameter of node(): **properties
Properties(d) ==
    (IF d.max_degree # <<>>
     THEN <<[key |-> "max_degree", type |-> "int", value |-> d.max_degree[1]]>> ELSE <<>>)
    \o (IF d.degree_direction # <<>>
        THEN <<[key |-> "degree_direction", type |-> "str", value |-> d.degree_direction[1]]>>
        ELSE <<>>)
    \o (IF d.degree_rel_type # <<>>
        THEN <<[key |-> "degree_rel_type", type |-> "str", value |-> d.degree_rel_type[1]]>>
        ELSE <<>>)

\* node(*labels, variable=variable, max_degree=..., degree_direction=..., degree_rel_type=...)
\* has returned or raised
Do_node(labels, variable, max_degree, degree_direction, degree_rel_type) ==
    LET d == DegreeInputs(max_degree, degree_direction, degree_rel_type)
        r == node(labels, variable, Properties(d))
    IN  /\ pattern' = [op |-> "node", self |-> None,
                       other |-> [labels |-> labels, variable |-> variable, degree |-> d],
                       error |-> r.error, kind |-> r.kind, value |-> r.value]
        /\ out' = NoOut
        /\ UNCHANGED <<qbVars, nodeVars, threads, compound>>

\* NodePattern(variable=variable, labels=labels, max_degree=..., ...) has returned or raised
Do_NodePattern(labels, variable, max_degree, degree_direction, degree_rel_type) ==
    LET d == DegreeInputs(max_degree, degree_direction, degree_rel_type)
        r == NodePattern_init(variable, [i \in 1..Len(labels) |-> StrItem(labels[i])], <<>>,
                              d.max_degree, d.degree_direction, d.degree_rel_type)
    IN  /\ pattern' = [op |-> "NodePattern", self |-> None,
                       other |-> [labels |-> labels, variable |-> variable, degree |-> d],
                       error |-> r.error, kind |-> r.kind, value |-> r.value]
        /\ out' = NoOut
        /\ UNCHANGED <<qbVars, nodeVars, threads, compound>>

\* to_cypher() of the node just built
Do_render ==
    /\ pattern.kind = "NodePattern"
    /\ out.op = "none"
    /\ out' = Result("NodePattern.to_cypher", "", NodePattern_to_cypher(pattern.value))
    /\ UNCHANGED <<qbVars, nodeVars, auxVars>>

InitNode ==
    /\ InitQuery
    /\ InitIdle
    /\ _node_counter = 0
    /\ issued = <<>>
    /\ refs = [n \in NodeIds |-> 0]
    /\ nodes = [n \in NodeIds |-> NodePattern(None, <<"Person">>)]

NextNode ==
    \/ \E labels \in LabelInputs, variable \in VariableInputs, m, d, t \in BOOLEAN :
           Do_node(labels, variable, m, d, t)
    \/ \E labels \in LabelInputs, variable \in VariableInputs, m, d, t \in BOOLEAN :
           Do_NodePattern(labels, variable, m, d, t)
    \/ Do_render

SpecNode == InitNode /\ [][NextNode]_vars

\* C17: a degree constraint requested without an explicit identifier, or a degree
\* direction or relationship type given without a maximum degree, raises
\* ValueError when the node is constructed, through node() and through
\* NodePattern alike, so no such node exists to be rendered.
C17_DegreeValidated ==
    LET a == pattern.other
        requested == \/ a.degree.max_degree # <<>>
                     \/ a.degree.degree_direction # <<>>
                     \/ a.degree.degree_rel_type # <<>>
        no_identifier == a.variable = None /\ (pattern.op = "node" => a.labels = <<>>)
    IN  (/\ pattern.op \in {"node", "NodePattern"}
         /\ requested
         /\ no_identifier \/ a.degree.max_degree = <<>>)
        => /\ pattern.error = "ValueError"
           /\ pattern.kind = "None"

\* the labels of the call, without the first one where node() takes it as the identifier
GivenLabels ==
    IF pattern.op = "node" /\ pattern.other.variable = None /\ pattern.other.labels # <<>>
    THEN Tail(pattern.other.labels)
    ELSE pattern.other.labels

\* text holds the tokens part one after the other
Contains(text, part) ==
    \E k \in 0..(Len(text) - Len(part)) : SubSeq(text, k + 1, k + Len(part)) = part

\* C20: a node given several plain string labels and no label operators renders
\* them colon-joined and not as an & expression, built through node() as well as
\* directly.
C20_PlainLabelsColonJoined ==
    (/\ pattern.op \in {"node", "NodePattern"}
     /\ out.op = "NodePattern.to_cypher"
     /\ Len(GivenLabels) >= 2)
    => LET text == out.lines[1].text
       IN  /\ Contains(text, Join([i \in 1..Len(GivenLabels) |-> <<GivenLabels[i]>>], <<":">>))
           /\ \A i \in 1..Len(text) : text[i] # " & "

(***************************************************************************)
(* Compound queries (compound_query.py): QueryBuilder.union / union_all    *)
(* start a CompoundQuery, CompoundQuery.union / union_all extend one.      *)
(***************************************************************************)
\* CompoundQuery(queries=..., union_operators=...)
CompoundQuery(queries, union_operators) ==
    [queries |-> queries, union_operators |-> union_operators]

\* QueryBuilder.union(other)
QueryBuilder_union(self, other) == Effect(self, CompoundQuery(<<self, other>>, <<"UNION">>))

\* QueryBuilder.union_all(other)
QueryBuilder_union_all(self, other) ==
    Effect(self, CompoundQuery(<<self, other>>, <<"UNION ALL">>))

\* a union that adds the query and no operator
CompoundQuery_union_without_operator(self, other) ==
    Effect(self, CompoundQuery(self.queries \o <<other>>, self.union_operators))

\* CompoundQuery.union(other)
CompoundQuery_union(self, other) ==
    Effect(self, CompoundQuery(self.queries \o <<other>>, self.union_operators \o <<"UNION">>))

\* CompoundQuery.union_all(other)
CompoundQuery_union_all(self, other) ==
    Effect(self, CompoundQuery(self.queries \o <<other>>, self.union_operators \o <<"UNION ALL">>))

\* the most queries of a CompoundQuery
MaxQueries == 4

\* the builders that are combined
UnionInputs ==
    {return_(match(<<>>, <<"n1">>).ret, <<StrItem("p.name")>>, FALSE).ret,
     return_(match(<<>>, <<"n2">>).ret, <<StrItem("c.name")>>, FALSE).ret}

\* a union call on receiver was made: calls are the calls that built the receiver
\* followed by the one just made, eff is what the call left and returned
Combine(method, receiver, calls, eff) ==
    /\ compound' = [op |-> method, recv_before |-> receiver, recv_after |-> eff.self,
                    recv_calls |-> SubSeq(calls, 1, Len(calls) - 1),
                    ret |-> eff.ret, ret_calls |-> calls]
    /\ UNCHANGED <<qbVars, out, nodeVars, threads, pattern>>

\* q.union(other) / q.union_all(other) on a builder q
Do_union(q, other) ==
    Combine("QueryBuilder.union", q, <<[first |-> q, operator |-> "UNION", other |-> other]>>,
            QueryBuilder_union(q, other))

Do_union_all(q, other) ==
    Combine("QueryBuilder.union_all", q,
            <<[first |-> q, operator |-> "UNION ALL", other |-> other]>>,
            QueryBuilder_union_all(q, other))

\* the CompoundQuery a call is made on: the one returned last, or the one the last
\* call was made on, with the calls that built it
Earlier(r) ==
    IF r = "ret" THEN [query |-> compound.ret, calls |-> compound.ret_calls]
    ELSE [query |-> compound.recv_after, calls |-> compound.recv_calls]

\* c.union(other) on a CompoundQuery c
Do_compound_union(r, other) ==
    LET c == Earlier(r)
    IN  /\ compound.op # "none"
        /\ r = "self" => compound.op \in {"CompoundQuery.union", "CompoundQuery.union_all"}
        /\ Len(c.query.queries) < MaxQueries
        /\ Combine("CompoundQuery.union", c.query,
                   Append(c.calls, [first |-> c.calls[1].first, operator |-> "UNION",
                                    other |-> other]),
                   CompoundQuery_union(c.query, other))

\* c.union_all(other) on a CompoundQuery c
Do_compound_union_all(r, other) ==
    LET c == Earlier(r)
    IN  /\ compound.op # "none"
        /\ r = "self" => compound.op \in {"CompoundQuery.union", "CompoundQuery.union_all"}
        /\ Len(c.query.queries) < MaxQueries
        /\ Combine("CompoundQuery.union_all", c.query,
                   Append(c.calls, [first |-> c.calls[1].first, operator |-> "UNION ALL",
                                    other |-> other]),
                   CompoundQuery_union_all(c.query, other))

InitUnion ==
    /\ InitQuery
    /\ _node_counter = 0
    /\ issued = <<>>
    /\ refs = [n \in NodeIds |-> 0]
    /\ nodes = [n \in NodeIds |-> NodePattern(None, <<"Person">>)]
    /\ threads = <<>>
    /\ pattern = [op |-> "none", self |-> None, other |-> <<>>,
                  error |-> "None", kind |-> "None", value |-> None]
    /\ compound = [op |-> "none", recv_before |-> <<>>, recv_after |-> <<>>,
                   recv_calls |-> <<>>, ret |-> CompoundQuery(<<>>, <<>>), ret_calls |-> <<>>]

NextUnion ==
    \/ \E q, other \in UnionInputs : Do_union(q, other)
    \/ \E q, other \in UnionInputs : Do_union_all(q, other)
    \/ \E r \in {"ret", "self"}, other \in UnionInputs : Do_compound_union(r, other)
    \/ \E r \in {"ret", "self"}, other \in UnionInputs : Do_compound_union_all(r, other)

SpecUnion == InitUnion /\ [][NextUnion]_vars

\* C18: every CompoundQuery produced by QueryBuilder.union / union_all and by
\* further CompoundQuery.union / union_all calls has one operator less than it
\* has queries, holds the queries and the operators in the order of the calls,
\* and the CompoundQuery a call was made on is left as it was.
C18_OperatorsBetweenQueries ==
    compound.op # "none" =>
        LET c == compound.ret
            calls == compound.ret_calls
        IN  /\ Len(c.union_operators) = Len(c.queries) - 1
            /\ Len(c.queries) = Len(calls) + 1
            /\ c.queries[1] = calls[1].first
            /\ \A i \in 1..Len(calls) :
                   /\ c.queries[i + 1] = calls[i].other
                   /\ c.union_operators[i] = calls[i].operator
            /\ compound.recv_after = compound.recv_before
            /\ compound.op \in {"CompoundQuery.union", "CompoundQuery.union_all"} =>
                   /\ Len(compound.recv_after.union_operators) = Len(compound.recv_calls)
                   /\ \A i \in 1..Len(compound.recv_calls) :
                          /\ compound.recv_after.queries[i + 1] = compound.recv_calls[i].other
                          /\ compound.recv_after.union_operators[i] = compound.recv_calls[i].operator

\* C18 witness: union_all was called on a CompoundQuery of three queries joined by
\* UNION ALL and UNION, and returned one of four queries
C18_Witness ==
    /\ compound.op = "CompoundQuery.union_all"
    /\ Len(compound.recv_before.queries) = 3
    /\ compound.recv_before.union_operators = <<"UNION ALL", "UNION">>
    /\ Len(compound.ret.queries) = 4
    /\ compound.ret.queries[1] # compound.ret.queries[2]

(***************************************************************************)
(* Subqueries inside subqueries: call_subquery(call_subquery(inner)).      *)
(***************************************************************************)
\* the deepest nesting of CALL { } blocks handed to call_subquery
MaxDepth == 2

RECURSIVE Nested(_)
\* the subqueries of at most d CALL { } blocks around a query of MATCH and RETURN
\* or of USE and UNWIND
Nested(d) ==
    IF d = 0
    THEN {return_(match(<<>>, <<"n1">>).ret, <<StrItem("p.name")>>, FALSE).ret,
          unwind(use(<<>>, "movies").ret, "$rows", "row").ret}
    ELSE Nested(d - 1) \cup {call_subquery(<<>>, x, <<>>).ret : x \in Nested(d - 1)}

NextNest ==
    \/ \E r \in Receivers, subquery \in Nested(MaxDepth - 1) : Do_call_subquery(r, subquery)
    \/ \E r \in Receivers, n \in NodeIds : Do_match(r, <<n>>)
    \/ \E r \in Receivers, database \in Databases : Do_use(r, database)
    \/ \E r \in Receivers : Do_return(r, <<StrItem("p.name")>>)
    \/ Do_to_cypher

SpecNest == Init /\ [][NextNest]_vars

RECURSIVE Indented(_, _)
\* every line stands 2 spaces deeper per CALL { } block open around it, and a
\* closing brace stands at the indent of the CALL line that opened its block;
\* open holds the indents of the CALL lines of the blocks open so far
Indented(lines, open) ==
    IF lines = <<>> THEN TRUE
    ELSE LET l == Head(lines)
         IN  IF l.text = <<"}">>
             THEN /\ l.indent = open[Len(open)]
                  /\ Indented(Tail(lines), SubSeq(open, 1, Len(open) - 1))
             ELSE /\ l.indent = 2 * Len(open)
                  /\ Indented(Tail(lines),
                              IF l.text[Len(l.text)] = " {" THEN Append(open, l.indent) ELSE open)

RECURSIVE str_replace(_, _, _)
\* s.replace(old, new) for old a single character and new a sequence of characters
str_replace(s, old, new) ==
    IF s = <<>> THEN <<>>
    ELSE (IF Head(s) = old THEN new ELSE <<Head(s)>>) \o str_replace(Tail(s), old, new)

\* Literal(value).to_cypher()
Literal_to_cypher(v) ==
    IF v.type = "str"
    THEN LET escaped == str_replace(v.value, "\"", <<"\\", "\"">>)
         IN  <<"\"">> \o escaped \o <<"\"">>
    ELSE IF v.type = "bool" THEN (IF v.value THEN <<"true">> ELSE <<"false">>)
    ELSE IF v.type = "NoneType" THEN <<"null">>
    ELSE <<IntToStr(v.value)>>

MaxLen == 3

Chars == {"a", "'", "\"", "\\"}

RECURSIVE Strings(_)
\* the strings of at most n characters
Strings(n) ==
    IF n = 0 THEN {<<>>}
    ELSE Strings(n - 1) \cup {Append(s, c) : s \in {t \in Strings(n - 1) : Len(t) = n - 1}, c \in Chars}

\* literal(value) has returned Literal(value), value of the given type
Do_literal(type, value) ==
    /\ pattern' = [op |-> "literal", self |-> None, other |-> <<>>,
                   error |-> "None", kind |-> "Literal",
                   value |-> [type |-> type, value |-> value]]
    /\ out' = NoOut
    /\ UNCHANGED <<qbVars, nodeVars, threads, compound>>

\* to_cypher() of the literal just built
Do_literal_to_cypher ==
    /\ pattern.kind = "Literal"
    /\ out.op = "none"
    /\ out' = Result("Literal.to_cypher", "", Literal_to_cypher(pattern.value))
    /\ UNCHANGED <<qbVars, nodeVars, auxVars>>

NextLiteral ==
    \/ \E s \in Strings(MaxLen) : Do_literal("str", s)
    \/ \E b \in BOOLEAN : Do_literal("bool", b)
    \/ Do_literal("NoneType", None)
    \/ \E i \in 0..9 : Do_literal("int", i)
    \/ Do_literal_to_cypher

SpecLiteral == InitNode /\ [][NextLiteral]_vars

\* C21: the text of a str literal is the string between single quotes, every single
\* quote in it written as a backslash followed by the quote.
C21_SingleQuotedLiteral ==
    (out.op = "Literal.to_cypher" /\ pattern.value.type = "str")
        => out.lines[1].text
               = <<"'">> \o str_replace(pattern.value.value, "'", <<"\\", "'">>) \o <<"'">>

(***************************************************************************)
(* Concatenation of two paths that were built with the PathPattern         *)
(* constructor: element lists of any shape, each path with or without a    *)
(* variable.                                                               *)
(***************************************************************************)
\* the longest element list handed to the constructor of an operand
MaxOperand == 2

\* an element of an operand, named by a node instance or by a direction
Element(c) == IF c \in NodeIds THEN NodeElement(c) ELSE RelationshipPattern(c)

RECURSIVE ElementLists(_)
\* the lists of at most n elements
ElementLists(n) ==
    IF n = 0 THEN {<<>>}
    ELSE ElementLists(n - 1)
         \cup {Append(s, c) : s \in {t \in ElementLists(n - 1) : Len(t) = n - 1},
                              c \in NodeIds \cup {">"}}

\* op is "concat" or "+": the first operation on two paths just constructed,
\* PathPattern(le, variable=lv) op PathPattern(re, variable=rv), has returned or raised
Do_concat(op, le, lv, re, rv) ==
    LET left == PathPattern_init([i \in 1..Len(le) |-> Element(le[i])], lv, None)
        right == PathPattern_init([i \in 1..Len(re) |-> Element(re[i])], rv, None)
        r == IF op = "concat" THEN PathPattern_concat(left, PathElement(right), nodes)
             ELSE PathPattern___add__(left, PathElement(right), nodes)
    IN  /\ pattern.op = "none"
        /\ pattern' = [op |-> op, self |-> PathElement(left), other |-> PathElement(right),
                       error |-> r.error, kind |-> r.kind, value |-> r.value]
        /\ UNCHANGED <<qbVars, out, nodeVars, threads, compound>>

InitConcat ==
    /\ InitQuery
    /\ InitIdle
    /\ _node_counter = 0
    /\ issued = <<>>
    /\ refs = [n \in NodeIds |-> 0]
    /\ \E v1, v2 \in VariableInputs :
           nodes = [n \in NodeIds |-> IF n = "n1" THEN NodePattern(v1, <<"Person">>)
                                      ELSE NodePattern(v2, <<"Company">>)]

NextConcat ==
    \/ \E le, re \in ElementLists(MaxOperand), lv \in {None, <<"p1">>}, rv \in {None, <<"p2">>} :
           Do_concat("concat", le, lv, re, rv)
    \/ \E le, re \in ElementLists(MaxOperand), lv \in {None, <<"p1">>}, rv \in {None, <<"p2">>} :
           Do_concat("+", le, lv, re, rv)

SpecConcat == InitConcat /\ [][NextConcat]_vars

\* C24: the variable of left.concat(right) and of left + right, left and right being
\* paths, is the variable of left, none when left has none, whatever the variable
\* of right is.
C24_LeftVariableKept ==
    (/\ pattern.op \in {"concat", "+"}
     /\ pattern.self.type = "PathPattern"
     /\ pattern.other.type = "PathPattern"
     /\ Produced)
        => pattern.value.variable = pattern.self.value.variable

\* the last operation concatenated a path that ends in a node with a path that
\* starts with a node
NodeMeetsNode ==
    /\ pattern.op \in {"concat", "+"}
    /\ pattern.self.type = "PathPattern"
    /\ pattern.other.type = "PathPattern"
    /\ pattern.self.value.elements # <<>>
    /\ pattern.other.value.elements # <<>>
    /\ pattern.self.value.elements[Len(pattern.self.value.elements)].type = "NodePattern"
    /\ pattern.other.value.elements[1].type = "NodePattern"

Node_where(n, m, condition) ==
    /\ n # m
    /\ nodes' = [nodes EXCEPT ![m] = NodePattern_where(nodes[n], condition)]
    /\ refs' = [refs EXCEPT ![m] = 0]
    /\ pattern' = [op |-> "NodePattern.where", self |-> n, other |-> m,
                   error |-> "None", kind |-> "NodePattern",
                   value |-> EffectiveVariable(nodes[n])]
    /\ out' = Result("NodePattern.where", m, <<>>)
    /\ UNCHANGED <<qbVars, _node_counter, issued, threads, compound>>

NextWhere ==
    \/ \E n, m \in NodeIds, c \in ConditionTexts : Node_where(n, m, c)
    \/ \E n \in NodeIds : Node_str(n, MaxCounter)
    \/ \E n \in NodeIds : Node_prop(n, MaxCounter)
    \/ \E n \in NodeIds : Node_to_cypher(n)

SpecWhere == InitAlloc /\ [][NextWhere]_vars

clauses_after_to_cypher_stored(clauses) == RenderOrder(clauses)

\* self.clauses after QueryBuilder.to_cypher: the method appends to pagination_clauses
\* and all_clauses, lists of its own, and assigns nothing to self
clauses_after_to_cypher(clauses) == clauses

\* the most to_cypher calls made in a row on one builder
MaxRenders == 2

\* text = ret.to_cypher(); call.count is the number of to_cypher calls made on the
\* builder since the last builder call
Do_to_cypher_on_builder ==
    LET renders == IF call.method = "to_cypher" THEN call.count + 1 ELSE 1
    IN  /\ renders <= MaxRenders
        /\ recv_before' = ret
        /\ recv_after' = clauses_after_to_cypher(ret)
        /\ ret' = clauses_after_to_cypher(ret)
        /\ call' = Call("to_cypher", renders, "")
        /\ out' = [op |-> "to_cypher", target |-> "ret"]
                  @@ QueryBuilder_to_cypher(clauses_after_to_cypher(ret), 0, nodes)
        /\ UNCHANGED <<nodeVars, auxVars>>

NextRender ==
    \/ \E r \in {"ret", "new"}, n \in NodeIds : Do_match(r, <<n>>)
    \/ \E r \in {"ret", "new"}, projections \in ReturnInputs : Do_return(r, projections)
    \/ \E r \in {"ret", "new"}, fields \in OrderByInputs : Do_order_by(r, fields)
    \/ \E r \in {"ret", "new"} : Do_skip(r, 1)
    \/ \E r \in {"ret", "new"} : Do_limit(r, 2)
    \/ \E n \in NodeIds : Node_str(n, MaxCounter)
    \/ Do_to_cypher_on_builder

SpecRender == Init /\ [][NextRender]_vars

====
